---- MODULE Spec2Model ----
(***************************************************************************)
(* Model of sdn_controller.py: the Graph topology, the SDNController       *)
(* (Dijkstra, equal-cost next hops, flow-table synthesis, path query) and  *)
(* the command loop that drives them.                                      *)
(*                                                                         *)
(* Python dicts are modelled as TLA+ functions.  Where the code iterates a *)
(* dict (nodes(), neighbors()) the model iterates in the order of NodeRank;*)
(* the insertion order of a dict decides only the order of the entries     *)
(* inside one switch's list and the order of the keys of flow_tables.      *)
(***************************************************************************)
EXTENDS Integers, Sequences, FiniteSets, TLC

\* ---------------------------------------------------------------- bounds
\* Largest link weight a command passes to add_link (weights are 0..MaxWeight).
MaxWeight == 1
\* Largest length of active_flows; inject_flow is not offered beyond it.
MaxFlows == 1

\* ---------------------------------------------------------------- inputs
\* Node names the commands are given.
Nodes == {"H1", "H2", "S4"}
\* (u, v) pairs given to the add_link and remove_link commands: a triangle.
LinkInputs == {<<"H1", "H2">>, <<"H2", "S4">>, <<"S4", "H1">>}
\* (u, v) pairs given to Graph.add_link and Graph.remove_link when the topology
\* is built directly: every pair, self-links and both orientations included.
GraphLinkInputs == Nodes \X Nodes
\* (src, dst) pairs given to inject_flow.
FlowInputs == {<<"H1", "H2">>, <<"H2", "S4">>}
\* (src, dst) pairs given to query: both directions of a pair that can be linked
\* directly and over H2, a neighbour pair, and src = dst.
QueryInputs == {<<"H1", "S4">>, <<"S4", "H1">>, <<"H1", "H2">>, <<"H2", "H2">>}
Weights == 0..MaxWeight

\* ---------------------------------------------------------------- values
\* Python's None where a node is expected (prev[n], an unused command argument).
NoneNode == "None"
\* float('inf'): compared and added through Lt and Plus below.
INF == -1
\* Order of the node names as Python compares strings (heapq compares (d, u)).
NodeRank == [n \in {"H1", "H2", "S1", "S2", "S3", "S4"} |->
               CASE n = "H1" -> 1 [] n = "H2" -> 2 [] n = "S1" -> 3
                 [] n = "S2" -> 4 [] n = "S3" -> 5 [] n = "S4" -> 6]
\* The empty dict.
EmptyMap == [x \in {} |-> 0]

VARIABLES
  adj,             \* Graph.adj: node -> (neighbor -> weight)
  flow_tables,     \* SDNController.flow_tables: switch -> sequence of entries
  active_flows,    \* SDNController.active_flows: sequence of <<src, dst>>
  critical_flows,  \* SDNController.critical_flows: set of <<src, dst>>
  cmd,             \* the command the loop ran last
  path,            \* what the last command's compute_path call produced
  pc               \* "setup": the topology is being built, no controller yet;
                   \* "prompt": waiting for a command; "crashed": uncaught exception

vars == <<adj, flow_tables, active_flows, critical_flows, cmd, path, pc>>

\* a < b and a + w on floats that may be inf.
Lt(a, b) == a /= INF /\ (b = INF \/ a < b)
Plus(a, w) == IF a = INF THEN INF ELSE a + w

\* ------------------------------------------------------------ dict helpers
MapPut(m, k, x) == [y \in (DOMAIN m) \cup {k} |-> IF y = k THEN x ELSE m[y]]
MapDel(m, k) == [y \in (DOMAIN m) \ {k} |-> m[y]]
\* dict.get(k, default)
MapGet(m, k, default) == IF k \in DOMAIN m THEN m[k] ELSE default

\* The elements of S as a sequence in NodeRank order.
RECURSIVE NodeSeq(_)
NodeSeq(S) ==
  IF S = {} THEN <<>>
  ELSE LET n == CHOOSE x \in S : \A y \in S : NodeRank[x] <= NodeRank[y]
       IN <<n>> \o NodeSeq(S \ {n})

\* ------------------------------------------------------------------ Graph
GraphInit == EmptyMap

\* add_node as self.adj[node] = {}: an existing node loses its links.
GraphAddNode_Reset(a, node) == MapPut(a, node, EmptyMap)

GraphAddNode(a, node) == IF node \in DOMAIN a THEN a ELSE MapPut(a, node, EmptyMap)

\* The loop of remove_node over the neighbours still to visit: each step does
\* del adj[nbr][node]; a missing key raises KeyError and leaves the rest undone.
RECURSIVE RemoveNodeLoop(_, _, _)
RemoveNodeLoop(a, node, nbrs) ==
  IF nbrs = <<>> THEN [adj |-> a, ok |-> TRUE]
  ELSE LET nbr == Head(nbrs)
       IN IF nbr \notin DOMAIN a \/ node \notin DOMAIN a[nbr]
          THEN [adj |-> a, ok |-> FALSE]
          ELSE RemoveNodeLoop([a EXCEPT ![nbr] = MapDel(@, node)], node, Tail(nbrs))

\* remove_node that deletes the node's own map but not the references to it.
GraphRemoveNodeRun_KeepRefs(a, node) ==
  IF node \in DOMAIN a THEN [adj |-> MapDel(a, node), ok |-> TRUE]
  ELSE [adj |-> a, ok |-> TRUE]

GraphRemoveNodeRun(a, node) ==
  IF node \in DOMAIN a
  THEN LET r == RemoveNodeLoop(a, node, NodeSeq(DOMAIN a[node]))
       IN IF r.ok THEN [adj |-> MapDel(r.adj, node), ok |-> TRUE] ELSE r
  ELSE [adj |-> a, ok |-> TRUE]

GraphRemoveNode(a, node) == GraphRemoveNodeRun(a, node).adj

\* add_link that sets the weight in one direction only.
GraphAddLink_OneWay(a, u, v, weight) ==
  LET a1 == GraphAddNode(GraphAddNode(a, u), v)
  IN [a1 EXCEPT ![u] = MapPut(@, v, weight)]

GraphAddLink(a, u, v, weight) ==
  LET a1 == GraphAddNode(GraphAddNode(a, u), v)
      a2 == [a1 EXCEPT ![u] = MapPut(@, v, weight)]
  IN [a2 EXCEPT ![v] = MapPut(@, u, weight)]

GraphRemoveLink(a, u, v) ==
  LET a1 == IF u \in DOMAIN a THEN [a EXCEPT ![u] = MapDel(@, v)] ELSE a
  IN IF v \in DOMAIN a1 THEN [a1 EXCEPT ![v] = MapDel(@, u)] ELSE a1

\* neighbors(u): the (neighbor -> weight) map of u, empty for an absent u.
GraphNeighbors(a, u) == MapGet(a, u, EmptyMap)

GraphNodes(a) == DOMAIN a

\* ---------------------------------------------------------- SDNController
\* heapq.heappop on (d, u) tuples: the least d, then the least node name.
HeapMin(pq) ==
  CHOOSE t \in pq : \A s \in pq :
    t[1] < s[1] \/ (t[1] = s[1] /\ NodeRank[t[2]] <= NodeRank[s[2]])

\* The while loop of compute_shortest_paths.  pq is the heap as a set: an item
\* (nd, v) is pushed only when nd < dist[v], so no item is ever in it twice.
\* Within one pop the neighbours are distinct keys, so the for loop's updates
\* do not depend on the order in which it visits them.
\* The loop with the heappush forgotten: improved nodes are never expanded.
RECURSIVE DijkstraLoop_NoPush(_, _, _, _)
DijkstraLoop_NoPush(a, dist, prev, pq) ==
  IF pq = {} THEN [dist |-> dist, prev |-> prev]
  ELSE LET top == HeapMin(pq)
           d == top[1]
           u == top[2]
           nbrs == GraphNeighbors(a, u)
           better == {v \in DOMAIN nbrs : Lt(d + nbrs[v], dist[v])}
       IN DijkstraLoop_NoPush(a,
            [n \in DOMAIN dist |-> IF n \in better THEN d + nbrs[n] ELSE dist[n]],
            [n \in DOMAIN prev |-> IF n \in better THEN u ELSE prev[n]],
            pq \ {top})

\* The loop counting hops: every link is taken to weigh 1.
RECURSIVE DijkstraLoop_HopCount(_, _, _, _)
DijkstraLoop_HopCount(a, dist, prev, pq) ==
  IF pq = {} THEN [dist |-> dist, prev |-> prev]
  ELSE LET top == HeapMin(pq)
           d == top[1]
           u == top[2]
           rest == pq \ {top}
           nbrs == GraphNeighbors(a, u)
           better == {v \in DOMAIN nbrs : Lt(d + 1, dist[v])}
       IN IF Lt(dist[u], d) THEN DijkstraLoop_HopCount(a, dist, prev, rest)
          ELSE DijkstraLoop_HopCount(a,
                 [n \in DOMAIN dist |-> IF n \in better THEN d + 1 ELSE dist[n]],
                 [n \in DOMAIN prev |-> IF n \in better THEN u ELSE prev[n]],
                 rest \cup {<<d + 1, v>> : v \in better})

\* The loop recording u as predecessor also when nd equals dist[v]; the push
\* stays under nd < dist[v].
RECURSIVE DijkstraLoop_PrevOnTie(_, _, _, _)
DijkstraLoop_PrevOnTie(a, dist, prev, pq) ==
  IF pq = {} THEN [dist |-> dist, prev |-> prev]
  ELSE LET top == HeapMin(pq)
           d == top[1]
           u == top[2]
           rest == pq \ {top}
           nbrs == GraphNeighbors(a, u)
           better == {v \in DOMAIN nbrs : Lt(d + nbrs[v], dist[v])}
           tied == {v \in DOMAIN nbrs : d + nbrs[v] = dist[v]}
       IN IF Lt(dist[u], d) THEN DijkstraLoop_PrevOnTie(a, dist, prev, rest)
          ELSE DijkstraLoop_PrevOnTie(a,
                 [n \in DOMAIN dist |-> IF n \in better THEN d + nbrs[n] ELSE dist[n]],
                 [n \in DOMAIN prev |-> IF n \in better \cup tied THEN u ELSE prev[n]],
                 rest \cup {<<d + nbrs[v], v>> : v \in better})

RECURSIVE DijkstraLoop(_, _, _, _)
DijkstraLoop(a, dist, prev, pq) ==
  IF pq = {} THEN [dist |-> dist, prev |-> prev]
  ELSE LET top == HeapMin(pq)
           d == top[1]
           u == top[2]
           rest == pq \ {top}
           nbrs == GraphNeighbors(a, u)
           better == {v \in DOMAIN nbrs : Lt(d + nbrs[v], dist[v])}
       IN IF Lt(dist[u], d) THEN DijkstraLoop(a, dist, prev, rest)
          ELSE DijkstraLoop(a,
                 [n \in DOMAIN dist |-> IF n \in better THEN d + nbrs[n] ELSE dist[n]],
                 [n \in DOMAIN prev |-> IF n \in better THEN u ELSE prev[n]],
                 rest \cup {<<d + nbrs[v], v>> : v \in better})

\* compute_shortest_paths(src): [dist, prev].  dist[src] = 0 adds the key src
\* to dist when src is not a node; prev has the nodes as its keys.
ComputeShortestPaths(a, src) ==
  LET dist0 == [n \in GraphNodes(a) |-> INF]
      prev0 == [n \in GraphNodes(a) |-> NoneNode]
  IN DijkstraLoop(a, MapPut(dist0, src, 0), prev0, {<<0, src>>})

\* The next hops with a return at the first match: at most one neighbour.
ComputeEqualCostNextHops_FirstOnly(a, sw, dst, dist) ==
  LET nbrs == GraphNeighbors(a, sw)
      hits == {v \in DOMAIN nbrs :
                 Plus(MapGet(dist, v, INF), nbrs[v]) = MapGet(dist, dst, INF)}
  IN IF hits = {} THEN {}
     ELSE {CHOOSE v \in hits : \A x \in hits : NodeRank[v] <= NodeRank[x]}

\* compute_equal_cost_next_hops(sw, dst, dist), as the set of the list's elements.
ComputeEqualCostNextHops(a, sw, dst, dist) ==
  LET nbrs == GraphNeighbors(a, sw)
  IN {v \in DOMAIN nbrs : Plus(MapGet(dist, v, INF), nbrs[v]) = MapGet(dist, dst, INF)}

\* The walk of compute_path back along prev, from cur; acc is path so far
\* (dst first).  prev[cur] for a cur that is no key of prev raises KeyError.
\* The walk with the final reversal forgotten: the path runs from dst to src.
RECURSIVE PathWalk_NoReverse(_, _, _)
PathWalk_NoReverse(prev, cur, acc) ==
  IF cur = NoneNode THEN [kind |-> "path", nodes |-> acc]
  ELSE IF cur \notin DOMAIN prev THEN [kind |-> "KeyError", nodes |-> <<>>]
  ELSE PathWalk_NoReverse(prev, prev[cur], Append(acc, cur))

RECURSIVE PathWalk(_, _, _)
PathWalk(prev, cur, acc) ==
  IF cur = NoneNode THEN [kind |-> "path", nodes |-> acc]
  ELSE IF cur \notin DOMAIN prev THEN [kind |-> "KeyError", nodes |-> <<>>]
  ELSE PathWalk(prev, prev[cur], <<cur>> \o acc)

\* compute_path(src, dst): a path (already reversed: src first), None, or the
\* KeyError that dist[dst] or prev[cur] raises.
ComputePath(a, src, dst) ==
  LET sp == ComputeShortestPaths(a, src)
  IN IF dst \notin DOMAIN sp.dist THEN [kind |-> "KeyError", nodes |-> <<>>]
     ELSE IF sp.dist[dst] = INF THEN [kind |-> "None", nodes |-> <<>>]
     ELSE PathWalk(sp.prev, dst, <<>>)

\* A shuffle that draws with replacement (random.choices): every list of
\* len(S) elements of S, repeated and dropped elements included.
Shuffles_WithReplacement(S) == [1..Cardinality(S) -> S]

\* All orders random.shuffle can leave a list with the elements S in.
RECURSIVE Shuffles(_)
Shuffles(S) ==
  IF S = {} THEN {<<>>}
  ELSE UNION {{<<x>> \o t : t \in Shuffles(S \ {x})} : x \in S}

\* The entry with the priority loop comparing the flow's source with dst.
BuildEntry_MatchSrc(dst, primaries, af, cf) ==
  LET prio == IF \E i \in 1..Len(af) : af[i][1] = dst THEN "high" ELSE "normal"
      withBackup == \E i \in 1..Len(af) : af[i] \in cf /\ Len(primaries) > 1
  IN IF withBackup
     THEN [match_dst |-> dst, action |-> primaries, priority |-> prio,
           backup |-> Tail(primaries)]
     ELSE [match_dst |-> dst, action |-> primaries, priority |-> prio]

\* The entry with the backup test len(primaries) >= 1 instead of > 1.
BuildEntry_BackupFromOne(dst, primaries, af, cf) ==
  LET prio == IF \E i \in 1..Len(af) : af[i][2] = dst THEN "high" ELSE "normal"
      withBackup == \E i \in 1..Len(af) : af[i] \in cf /\ Len(primaries) >= 1
  IN IF withBackup
     THEN [match_dst |-> dst, action |-> primaries, priority |-> prio,
           backup |-> Tail(primaries)]
     ELSE [match_dst |-> dst, action |-> primaries, priority |-> prio]

\* The entry install_flows builds for dst from the shuffled primaries.
BuildEntry(dst, primaries, af, cf) ==
  LET prio == IF \E i \in 1..Len(af) : af[i][2] = dst THEN "high" ELSE "normal"
      base == [match_dst |-> dst, action |-> primaries, priority |-> prio]
      withBackup == \E i \in 1..Len(af) : af[i] \in cf /\ Len(primaries) > 1
  IN IF withBackup
     THEN [match_dst |-> dst, action |-> primaries, priority |-> prio,
           backup |-> Tail(primaries)]
     ELSE base

\* The destinations with the dst == sw test forgotten.
EntryDsts_KeepSelf(a, sw, dist) == {dst \in GraphNodes(a) : dist[dst] /= INF}

\* The destinations install_flows does not skip at switch sw.
EntryDsts(a, sw, dist) == {dst \in GraphNodes(a) : dst /= sw /\ dist[dst] /= INF}

\* Every list of entries the inner loop can append to flow_tables[sw] for the
\* destinations dsts (in iteration order), one per outcome of the shuffles.
RECURSIVE SwitchTables(_, _, _, _, _, _)
SwitchTables(a, af, cf, sw, dist, dsts) ==
  IF dsts = <<>> THEN {<<>>}
  ELSE LET dst == Head(dsts)
           hops == ComputeEqualCostNextHops(a, sw, dst, dist)
       IN {<<BuildEntry(dst, p, af, cf)>> \o rest :
             p \in Shuffles(hops),
             rest \in SwitchTables(a, af, cf, sw, dist, Tail(dsts))}

\* Every table the outer loop can build for the switches sws.
RECURSIVE TablesFor(_, _, _, _)
TablesFor(a, af, cf, sws) ==
  IF sws = {} THEN {EmptyMap}
  ELSE LET sw == CHOOSE x \in sws : TRUE
           dist == ComputeShortestPaths(a, sw).dist
           dsts == NodeSeq(EntryDsts(a, sw, dist))
       IN {MapPut(t, sw, l) :
             t \in TablesFor(a, af, cf, sws \ {sw}),
             l \in SwitchTables(a, af, cf, sw, dist, dsts)}

\* install_flows(): the tables it can leave in flow_tables, given the topology
\* a, active_flows af and critical_flows cf.
InstallFlows(a, af, cf) == TablesFor(a, af, cf, GraphNodes(a))

\* --------------------------------------------------------------- commands
NoCmd == [op |-> "none", u |-> NoneNode, v |-> NoneNode, w |-> 0]
NoPath == [kind |-> "unset", nodes |-> <<>>]

\* Graph(), then SDNController(topo): __init__ ends with install_flows().
Init ==
  /\ adj = GraphInit
  /\ active_flows = <<>>
  /\ critical_flows = {<<"H2", "S4">>}
  /\ flow_tables \in InstallFlows(GraphInit, <<>>, {<<"H2", "S4">>})
  /\ cmd = NoCmd
  /\ path = NoPath
  /\ pc = "prompt"

\* add_node <node>
CmdAddNode(n) ==
  /\ pc = "prompt"
  /\ adj' = GraphAddNode(adj, n)
  /\ flow_tables' \in InstallFlows(adj', active_flows, critical_flows)
  /\ cmd' = [op |-> "add_node", u |-> n, v |-> NoneNode, w |-> 0]
  /\ path' = NoPath
  /\ UNCHANGED <<active_flows, critical_flows, pc>>

\* remove_node <node>
CmdRemoveNode(n) ==
  /\ pc = "prompt"
  /\ cmd' = [op |-> "remove_node", u |-> n, v |-> NoneNode, w |-> 0]
  /\ path' = NoPath
  /\ adj' = GraphRemoveNode(adj, n)
  /\ IF GraphRemoveNodeRun(adj, n).ok
     THEN /\ flow_tables' \in InstallFlows(adj', active_flows, critical_flows)
          /\ pc' = pc
     ELSE /\ flow_tables' = flow_tables
          /\ pc' = "crashed"
  /\ UNCHANGED <<active_flows, critical_flows>>

\* add_link <u> <v> <weight>
CmdAddLink(u, v, w) ==
  /\ pc = "prompt"
  /\ adj' = GraphAddLink(adj, u, v, w)
  /\ flow_tables' \in InstallFlows(adj', active_flows, critical_flows)
  /\ cmd' = [op |-> "add_link", u |-> u, v |-> v, w |-> w]
  /\ path' = NoPath
  /\ UNCHANGED <<active_flows, critical_flows, pc>>

\* remove_link that removes the link and does not rebuild the flow tables.
CmdRemoveLink_NoInstall(u, v) ==
  /\ pc = "prompt"
  /\ adj' = GraphRemoveLink(adj, u, v)
  /\ cmd' = [op |-> "remove_link", u |-> u, v |-> v, w |-> 0]
  /\ path' = NoPath
  /\ UNCHANGED <<flow_tables, active_flows, critical_flows, pc>>

\* remove_link <u> <v> and simulate_failure <u> <v>:
\* remove_link_and_reconfigure(u, v)
CmdRemoveLink(u, v) ==
  /\ pc = "prompt"
  /\ adj' = GraphRemoveLink(adj, u, v)
  /\ flow_tables' \in InstallFlows(adj', active_flows, critical_flows)
  /\ cmd' = [op |-> "remove_link", u |-> u, v |-> v, w |-> 0]
  /\ path' = NoPath
  /\ UNCHANGED <<active_flows, critical_flows, pc>>

\* inject_flow <src> <dst>
CmdInjectFlow(src, dst) ==
  /\ pc = "prompt"
  /\ Len(active_flows) < MaxFlows
  /\ active_flows' = Append(active_flows, <<src, dst>>)
  /\ flow_tables' \in InstallFlows(adj, active_flows', critical_flows)
  /\ cmd' = [op |-> "inject_flow", u |-> src, v |-> dst, w |-> 0]
  /\ path' = NoPath
  /\ UNCHANGED <<adj, critical_flows, pc>>

\* query over a topology kept in a defaultdict: looking src up adds it as a node.
CmdQuery_AddsNode(src, dst) ==
  /\ pc = "prompt"
  /\ adj' = GraphAddNode(adj, src)
  /\ path' = ComputePath(adj, src, dst)
  /\ pc' = IF path'.kind = "KeyError" THEN "crashed" ELSE pc
  /\ cmd' = [op |-> "query", u |-> src, v |-> dst, w |-> 0]
  /\ UNCHANGED <<flow_tables, active_flows, critical_flows>>

\* query <src> <dst>: an uncaught KeyError ends the program.
CmdQuery(src, dst) ==
  /\ pc = "prompt"
  /\ path' = ComputePath(adj, src, dst)
  /\ pc' = IF path'.kind = "KeyError" THEN "crashed" ELSE pc
  /\ cmd' = [op |-> "query", u |-> src, v |-> dst, w |-> 0]
  /\ UNCHANGED <<adj, flow_tables, active_flows, critical_flows>>

Next ==
  \/ \E n \in Nodes : CmdAddNode(n)
  \/ \E n \in Nodes : CmdRemoveNode(n)
  \/ \E l \in LinkInputs, w \in Weights : CmdAddLink(l[1], l[2], w)
  \/ \E l \in LinkInputs : CmdRemoveLink(l[1], l[2])
  \/ \E f \in FlowInputs : CmdInjectFlow(f[1], f[2])
  \/ \E q \in QueryInputs : CmdQuery(q[1], q[2])

Spec == Init /\ [][Next]_vars

\* ------------------------------------------------- building the topology
\* topo = Graph(): the controller does not exist yet (flow_tables,
\* active_flows and critical_flows are shown empty until it does).
InitGraph ==
  /\ adj = GraphInit
  /\ flow_tables = EmptyMap
  /\ active_flows = <<>>
  /\ critical_flows = {}
  /\ cmd = NoCmd
  /\ path = NoPath
  /\ pc = "setup"

\* topo.add_node(node)
TopoAddNode(n) ==
  /\ pc = "setup"
  /\ adj' = GraphAddNode(adj, n)
  /\ cmd' = [op |-> "add_node", u |-> n, v |-> NoneNode, w |-> 0]
  /\ path' = NoPath
  /\ UNCHANGED <<flow_tables, active_flows, critical_flows, pc>>

\* topo.remove_node(node)
TopoRemoveNode(n) ==
  /\ pc = "setup"
  /\ adj' = GraphRemoveNode(adj, n)
  /\ pc' = IF GraphRemoveNodeRun(adj, n).ok THEN pc ELSE "crashed"
  /\ cmd' = [op |-> "remove_node", u |-> n, v |-> NoneNode, w |-> 0]
  /\ path' = NoPath
  /\ UNCHANGED <<flow_tables, active_flows, critical_flows>>

\* topo.add_link(u, v, w)
TopoAddLink(u, v, w) ==
  /\ pc = "setup"
  /\ adj' = GraphAddLink(adj, u, v, w)
  /\ cmd' = [op |-> "add_link", u |-> u, v |-> v, w |-> w]
  /\ path' = NoPath
  /\ UNCHANGED <<flow_tables, active_flows, critical_flows, pc>>

\* topo.remove_link(u, v)
TopoRemoveLink(u, v) ==
  /\ pc = "setup"
  /\ adj' = GraphRemoveLink(adj, u, v)
  /\ cmd' = [op |-> "remove_link", u |-> u, v |-> v, w |-> 0]
  /\ path' = NoPath
  /\ UNCHANGED <<flow_tables, active_flows, critical_flows, pc>>

NextGraph ==
  \/ \E n \in Nodes : TopoAddNode(n)
  \/ \E n \in Nodes : TopoRemoveNode(n)
  \/ \E l \in GraphLinkInputs, w \in Weights : TopoAddLink(l[1], l[2], w)
  \/ \E l \in GraphLinkInputs : TopoRemoveLink(l[1], l[2])

SpecGraph == InitGraph /\ [][NextGraph]_vars

\* ------------------------------------- path queries on a built topology
\* compute_path(src, dst) called on the topology as built so far: it reads
\* nothing but the topology.
TopoQuery(src, dst) ==
  /\ pc = "setup"
  /\ path' = ComputePath(adj, src, dst)
  /\ pc' = IF path'.kind = "KeyError" THEN "crashed" ELSE pc
  /\ cmd' = [op |-> "query", u |-> src, v |-> dst, w |-> 0]
  /\ UNCHANGED <<adj, flow_tables, active_flows, critical_flows>>

NextPaths ==
  \/ \E n \in Nodes : TopoAddNode(n)
  \/ \E n \in Nodes : TopoRemoveNode(n)
  \/ \E l \in GraphLinkInputs, w \in Weights : TopoAddLink(l[1], l[2], w)
  \/ \E l \in GraphLinkInputs : TopoRemoveLink(l[1], l[2])
  \/ \E q \in GraphLinkInputs : TopoQuery(q[1], q[2])

SpecPaths == InitGraph /\ [][NextPaths]_vars

\* ------------------------------------------------- the initial switch topology
\* The links of the initial switch topology, in the order main adds them.
ScenarioLinks ==
  <<<<"S1", "S2", 1>>, <<"S1", "S3", 1>>, <<"S2", "S4", 1>>, <<"S3", "S4", 1>>,
    <<"S1", "S4", 5>>>>

\* for u, v, w in links: topo.add_link(u, v, w)
RECURSIVE AddLinks(_, _)
AddLinks(a, links) ==
  IF links = <<>> THEN a
  ELSE AddLinks(GraphAddLink(a, Head(links)[1], Head(links)[2], Head(links)[3]),
                Tail(links))

\* The switch topology after the loop over ScenarioLinks.
ScenarioTopology == AddLinks(GraphInit, ScenarioLinks)

\* (src, dst) pairs given to query on the switch topology.
ScenarioQueries == {<<"S1", "S4">>, <<"S4", "S1">>}

\* The controller constructed over the switch topology (no hosts attached).
InitScenario ==
  /\ adj = ScenarioTopology
  /\ active_flows = <<>>
  /\ critical_flows = {<<"H2", "S4">>}
  /\ flow_tables \in InstallFlows(ScenarioTopology, <<>>, {<<"H2", "S4">>})
  /\ cmd = NoCmd
  /\ path = NoPath
  /\ pc = "prompt"

\* Links of the switch topology fail and are added again with their weight.
NextScenario ==
  \/ \E i \in 1..Len(ScenarioLinks) :
       CmdRemoveLink(ScenarioLinks[i][1], ScenarioLinks[i][2])
  \/ \E i \in 1..Len(ScenarioLinks) :
       CmdAddLink(ScenarioLinks[i][1], ScenarioLinks[i][2], ScenarioLinks[i][3])
  \/ \E f \in FlowInputs : CmdInjectFlow(f[1], f[2])
  \/ \E q \in ScenarioQueries : CmdQuery(q[1], q[2])

SpecScenario == InitScenario /\ [][NextScenario]_vars

\* dist as compute_shortest_paths(sw) returns it on the current topology.
DistFrom(sw) == ComputeShortestPaths(adj, sw).dist

\* ------------------------------------------- install_flows, step by step
\* The same program with install_flows run one statement at a time:
\* pc = "install" before line 81, pc = "install_loop" inside the loops of
\* lines 87-106.  What has been appended so far tells where the loops are: the
\* switches before the current one have all their entries, those after it none.

\* The switches in iteration order whose list is still short of its entries.
Unfinished ==
  SelectSeq(NodeSeq(GraphNodes(adj)),
            LAMBDA sw : Len(flow_tables[sw]) < Cardinality(EntryDsts(adj, sw, DistFrom(sw))))

\* topo = Graph(); SDNController(topo) up to the call of install_flows.
InitInstall ==
  /\ adj = GraphInit
  /\ flow_tables = EmptyMap
  /\ active_flows = <<>>
  /\ critical_flows = {<<"H2", "S4">>}
  /\ cmd = NoCmd
  /\ path = NoPath
  /\ pc = "install"

\* add_link <u> <v> <weight>, up to the call of install_flows.
BeginAddLink(u, v, w) ==
  /\ pc = "prompt"
  /\ adj' = GraphAddLink(adj, u, v, w)
  /\ cmd' = [op |-> "add_link", u |-> u, v |-> v, w |-> w]
  /\ path' = NoPath
  /\ pc' = "install"
  /\ UNCHANGED <<flow_tables, active_flows, critical_flows>>

\* remove_link <u> <v>: remove_link_and_reconfigure up to install_flows.
BeginRemoveLink(u, v) ==
  /\ pc = "prompt"
  /\ adj' = GraphRemoveLink(adj, u, v)
  /\ cmd' = [op |-> "remove_link", u |-> u, v |-> v, w |-> 0]
  /\ path' = NoPath
  /\ pc' = "install"
  /\ UNCHANGED <<flow_tables, active_flows, critical_flows>>

\* inject_flow <src> <dst>, up to the call of install_flows.
BeginInjectFlow(src, dst) ==
  /\ pc = "prompt"
  /\ Len(active_flows) < MaxFlows
  /\ active_flows' = Append(active_flows, <<src, dst>>)
  /\ cmd' = [op |-> "inject_flow", u |-> src, v |-> dst, w |-> 0]
  /\ path' = NoPath
  /\ pc' = "install"
  /\ UNCHANGED <<adj, flow_tables, critical_flows>>

\* self.flow_tables = {n: [] for n in self.topo.nodes()}, then all_dist.
InstallReset ==
  /\ pc = "install"
  /\ flow_tables' = [n \in GraphNodes(adj) |-> <<>>]
  /\ pc' = "install_loop"
  /\ UNCHANGED <<adj, active_flows, critical_flows, cmd, path>>

\* One pass of the inner loop that reaches self.flow_tables[sw].append(entry).
InstallAppend ==
  /\ pc = "install_loop"
  /\ Unfinished /= <<>>
  /\ LET sw == Head(Unfinished)
         dist == DistFrom(sw)
         dst == NodeSeq(EntryDsts(adj, sw, dist))[Len(flow_tables[sw]) + 1]
     IN \E p \in Shuffles(ComputeEqualCostNextHops(adj, sw, dst, dist)) :
          flow_tables' = [flow_tables EXCEPT ![sw] =
                            Append(@, BuildEntry(dst, p, active_flows, critical_flows))]
  /\ UNCHANGED <<adj, active_flows, critical_flows, cmd, path, pc>>

\* The loops are over: install_flows returns to the command loop.
InstallReturn ==
  /\ pc = "install_loop"
  /\ Unfinished = <<>>
  /\ pc' = "prompt"
  /\ UNCHANGED <<adj, flow_tables, active_flows, critical_flows, cmd, path>>

NextInstall ==
  \/ \E l \in LinkInputs, w \in Weights : BeginAddLink(l[1], l[2], w)
  \/ \E l \in LinkInputs : BeginRemoveLink(l[1], l[2])
  \/ \E f \in FlowInputs : BeginInjectFlow(f[1], f[2])
  \/ InstallReset
  \/ InstallAppend
  \/ InstallReturn
  \/ \E q \in QueryInputs : CmdQuery(q[1], q[2])

SpecInstall == InitInstall /\ [][NextInstall]_vars

\* ================================================================ claims
Range(seq) == {seq[i] : i \in 1..Len(seq)}

\* The links of the topology as <<a, b, w>>, one per direction stored.
Links(a) == UNION {{<<u, v, a[u][v]>> : v \in DOMAIN a[u]} : u \in DOMAIN a}

\* The nodes a walk over links reaches from the nodes R.
RECURSIVE ReachSet(_, _)
ReachSet(a, R) ==
  LET R2 == R \cup UNION {DOMAIN GraphNeighbors(a, u) : u \in R}
  IN IF R2 = R THEN R ELSE ReachSet(a, R2)

\* dst can be reached from src over links of the topology (both are nodes).
Reachable(a, src, dst) ==
  src \in GraphNodes(a) /\ dst \in GraphNodes(a) /\ dst \in ReachSet(a, {src})

\* a <= b on distances that may be inf.
Le(a, b) == b = INF \/ (a /= INF /\ a <= b)

\* C4: the adjacency is symmetric in every state the Graph operations reach
\* (adj[u][v] = w implies adj[v][u] = w), and right after add_link(u, v, w)
\* neighbors(u) contains (v, w) and neighbors(v) contains (u, w).
C4_AdjSymmetric ==
  /\ \A u \in DOMAIN adj : \A v \in DOMAIN adj[u] :
       /\ v \in DOMAIN adj
       /\ u \in DOMAIN adj[v]
       /\ adj[v][u] = adj[u][v]
  /\ cmd.op = "add_link" =>
       /\ cmd.u \in DOMAIN adj /\ cmd.v \in DOMAIN adj
       /\ cmd.v \in DOMAIN GraphNeighbors(adj, cmd.u)
       /\ GraphNeighbors(adj, cmd.u)[cmd.v] = cmd.w
       /\ cmd.u \in DOMAIN GraphNeighbors(adj, cmd.v)
       /\ GraphNeighbors(adj, cmd.v)[cmd.u] = cmd.w

\* C4 witness: add_link has just set a link between two distinct nodes while
\* a self-link and a link of another weight are present too.
C4_Witness ==
  /\ cmd.op = "add_link" /\ cmd.u /= cmd.v /\ cmd.w = 1
  /\ cmd.v \in DOMAIN adj[cmd.u]
  /\ \E n \in DOMAIN adj : n \in DOMAIN adj[n] /\ adj[n][n] = 0

\* C5: after remove_node(n), n is no node and no remaining node's neighbour
\* map names n; every neighbour named anywhere is itself a node.
C5_CleanRemoval ==
  /\ cmd.op = "remove_node" =>
       /\ cmd.u \notin GraphNodes(adj)
       /\ \A m \in GraphNodes(adj) : cmd.u \notin DOMAIN GraphNeighbors(adj, m)
  /\ \A m \in GraphNodes(adj) : DOMAIN GraphNeighbors(adj, m) \subseteq GraphNodes(adj)

\* C5 witness: remove_node has run and the two nodes left are still linked.
C5_Witness ==
  /\ cmd.op = "remove_node"
  /\ Cardinality(GraphNodes(adj)) = 2
  /\ \E m \in GraphNodes(adj) : \E k \in DOMAIN adj[m] : k /= m

\* The entries of every switch's table, as <<sw, entry>> pairs.
TableEntries == UNION {{<<sw, flow_tables[sw][i]>> : i \in 1..Len(flow_tables[sw])} :
                        sw \in DOMAIN flow_tables}

MutatingOps == {"add_node", "remove_node", "add_link", "remove_link", "inject_flow"}

\* C1: flow_tables is the table install_flows derives from the current
\* topology and flows: its keys are nodes(), and for every switch the
\* destinations (each once), each action set and each priority are those of a
\* rebuild from scratch.
C1_TableConsistent ==
  /\ DOMAIN flow_tables = GraphNodes(adj)
  /\ \A sw \in GraphNodes(adj) :
       LET tbl == flow_tables[sw]
           dsts == EntryDsts(adj, sw, DistFrom(sw))
       IN /\ {tbl[i].match_dst : i \in 1..Len(tbl)} = dsts
          /\ Len(tbl) = Cardinality(dsts)
          /\ \A i \in 1..Len(tbl) :
               /\ Range(tbl[i].action) =
                    ComputeEqualCostNextHops(adj, sw, tbl[i].match_dst, DistFrom(sw))
               /\ tbl[i] = BuildEntry(tbl[i].match_dst, tbl[i].action,
                                      active_flows, critical_flows)

\* C1 witness: remove_link has just cut a node off: three nodes, one of them
\* with an empty table, the other two with one entry each.
C1_Witness ==
  /\ cmd.op = "remove_link"
  /\ Cardinality(GraphNodes(adj)) = 3
  /\ \E sw \in DOMAIN flow_tables : Len(flow_tables[sw]) = 0
  /\ \E sw \in DOMAIN flow_tables : Len(flow_tables[sw]) = 1

\* The neighbours of sw that begin some shortest path from sw to dst.
ShortestPathNextHops(sw, dst) ==
  {v \in DOMAIN GraphNeighbors(adj, sw) :
     Plus(MapGet(DistFrom(v), dst, INF), adj[sw][v]) = DistFrom(sw)[dst]}

\* C2: for every switch sw and reachable dst /= sw, the next hops of
\* compute_equal_cost_next_hops(sw, dst, dist_from_sw), and so the entry's
\* action, are exactly the neighbours v of sw with
\* weight(sw, v) + distance(v, dst) = distance(sw, dst).
C2_NextHopsBeginShortestPath ==
  /\ \A sw \in GraphNodes(adj) : \A dst \in EntryDsts(adj, sw, DistFrom(sw)) :
       ComputeEqualCostNextHops(adj, sw, dst, DistFrom(sw)) = ShortestPathNextHops(sw, dst)
  /\ \A se \in TableEntries :
       Range(se[2].action) = ShortestPathNextHops(se[1], se[2].match_dst)

\* C3: at every switch sw, a node dst /= sw that is reachable from sw has
\* exactly one entry with match_dst = dst; dst = sw and unreachable dst have none.
C3_OneEntryPerReachableDst ==
  \A sw \in DOMAIN flow_tables : \A dst \in Nodes :
    Cardinality({i \in 1..Len(flow_tables[sw]) : flow_tables[sw][i].match_dst = dst})
      = IF dst /= sw /\ Reachable(adj, sw, dst) THEN 1 ELSE 0

\* C3 witness: a switch that has an entry for one node and, for want of a
\* path, none for another node of the topology.
C3_Witness ==
  \E sw \in DOMAIN flow_tables : \E d1 \in GraphNodes(adj), d2 \in GraphNodes(adj) :
    /\ d1 /= sw /\ d2 /= sw
    /\ Reachable(adj, sw, d1) /\ ~Reachable(adj, sw, d2)
    /\ Len(flow_tables[sw]) = 1

\* The sum of the link weights along the node sequence p.
RECURSIVE PathWeight(_, _)
PathWeight(a, p) ==
  IF Len(p) < 2 THEN 0 ELSE a[p[1]][p[2]] + PathWeight(a, Tail(p))

\* C6: a path compute_path(src, dst) returns starts at src, ends at dst,
\* steps only over links of the topology, and its weights sum to dist_src[dst].
C6_PathValid ==
  (cmd.op = "query" /\ path.kind = "path") =>
    LET p == path.nodes
    IN /\ Len(p) >= 1
       /\ p[1] = cmd.u
       /\ p[Len(p)] = cmd.v
       /\ \A i \in 1..(Len(p) - 1) :
            p[i] \in GraphNodes(adj) /\ p[i + 1] \in DOMAIN GraphNeighbors(adj, p[i])
       /\ PathWeight(adj, p) = DistFrom(cmd.u)[cmd.v]

\* C6 witness: a query answered with a two-link path although src and dst
\* are linked directly (the direct link is no shorter).
C6_Witness ==
  /\ cmd.op = "query" /\ path.kind = "path"
  /\ Len(path.nodes) = 3
  /\ cmd.v \in DOMAIN GraphNeighbors(adj, cmd.u)

\* C7: compute_path(src, dst) for a dst that cannot be reached from src (a
\* removed node included) returns None and raises no error, and it returns
\* None only when dst is unreachable from src.
C7_UnreachableIsNone ==
  cmd.op = "query" =>
    /\ path.kind /= "KeyError"
    /\ ~Reachable(adj, cmd.u, cmd.v) => path.kind = "None"
    /\ path.kind = "None" => ~Reachable(adj, cmd.u, cmd.v)

\* C8: for every source s and link (a, b, w), dist_s[b] <= dist_s[a] + w
\* (so also dist_s[a] <= dist_s[b] + w, the link being stored both ways), and
\* dist_s[s] = 0.
C8_DistFixpoint ==
  \A s \in GraphNodes(adj) :
    /\ DistFrom(s)[s] = 0
    /\ \A l \in Links(adj) :
         /\ Le(DistFrom(s)[l[2]], Plus(DistFrom(s)[l[1]], l[3]))
         /\ Le(DistFrom(s)[l[1]], Plus(DistFrom(s)[l[2]], l[3]))

\* C8 witness: a source with a neighbour that is nearer over two links than
\* over the direct link, in a topology the controller has computed tables for.
C8_Witness ==
  /\ cmd.op \in MutatingOps
  /\ \E s \in GraphNodes(adj) : \E b \in DOMAIN adj[s] : DistFrom(s)[b] < adj[s][b]

\* C9: an entry's priority is "high" iff some active flow's destination is
\* the entry's match_dst, and "normal" otherwise; after inject_flow(src, dst)
\* every entry with match_dst = dst is "high".
C9_PriorityIffActiveDst ==
  /\ \A se \in TableEntries :
       /\ se[2].priority \in {"high", "normal"}
       /\ se[2].priority = "high" <=>
            \E i \in 1..Len(active_flows) : active_flows[i][2] = se[2].match_dst
  /\ cmd.op = "inject_flow" =>
       \A se \in TableEntries : se[2].match_dst = cmd.v => se[2].priority = "high"

\* C9 witness: inject_flow(H1, H2) has run; some entry for H2 is "high" and
\* an entry for another destination is "normal".
C9_Witness ==
  /\ cmd.op = "inject_flow" /\ cmd.u = "H1" /\ cmd.v = "H2"
  /\ \E se \in TableEntries : se[2].match_dst = "H2" /\ se[2].priority = "high"
  /\ \E se \in TableEntries : se[2].match_dst /= "H2" /\ se[2].priority = "normal"

\* C10: an entry for dst carries a backup iff some active flow (src, dst) with
\* that destination is in critical_flows and the action has more than one hop.
C10_BackupIffCriticalDst ==
  \A se \in TableEntries :
    ("backup" \in DOMAIN se[2]) <=>
      /\ \E i \in 1..Len(active_flows) :
           active_flows[i] \in critical_flows /\ active_flows[i][2] = se[2].match_dst
      /\ Len(se[2].action) > 1

\* C11: a backup an entry carries is non-empty and is the entry's action
\* without its first element; an entry whose action has at most one next hop
\* carries no backup.
C11_BackupIsActionTail ==
  \A se \in TableEntries :
    /\ "backup" \in DOMAIN se[2] =>
         /\ Len(se[2].backup) >= 1
         /\ se[2].backup = Tail(se[2].action)
    /\ Len(se[2].action) <= 1 => "backup" \notin DOMAIN se[2]

\* C11 witness: with the critical flow active, one switch has an entry with
\* two next hops and a backup whose hop is not the least-named one (the
\* shuffle put it second), another has a one-hop entry without a backup.
C11_Witness ==
  /\ Len(active_flows) >= 1
  /\ \E i \in 1..Len(active_flows) : active_flows[i] \in critical_flows
  /\ \E se \in TableEntries :
       /\ "backup" \in DOMAIN se[2]
       /\ Len(se[2].action) = 2
       /\ NodeRank[se[2].action[1]] > NodeRank[se[2].action[2]]
  /\ \E se \in TableEntries : Len(se[2].action) = 1 /\ "backup" \notin DOMAIN se[2]

\* C20: every entry can forward: the action of the entry for a reachable
\* dst /= sw names at least one next hop.
C20_ActionNonEmpty ==
  \A se \in TableEntries : Len(se[2].action) >= 1

\* Two tables agree in everything but the order inside action and backup:
\* the same switches, per switch the same destinations, per destination the
\* same action set and priority.
SameUpToOrder(t1, t2) ==
  /\ DOMAIN t1 = DOMAIN t2
  /\ \A sw \in DOMAIN t1 :
       /\ {t1[sw][i].match_dst : i \in 1..Len(t1[sw])} =
            {t2[sw][i].match_dst : i \in 1..Len(t2[sw])}
       /\ \A i \in 1..Len(t1[sw]) : \A j \in 1..Len(t2[sw]) :
            t1[sw][i].match_dst = t2[sw][j].match_dst =>
              /\ Range(t1[sw][i].action) = Range(t2[sw][j].action)
              /\ t1[sw][i].priority = t2[sw][j].priority

\* C12: a rebuild that finds topology and flow state as the previous rebuild
\* left them (a command that changed neither) yields the same destinations,
\* action sets and priorities, whatever the shuffles do.
C12_RebuildSameUpToOrder ==
  [][(/\ cmd'.op \in MutatingOps
      /\ adj' = adj
      /\ active_flows' = active_flows
      /\ critical_flows' = critical_flows)
     => SameUpToOrder(flow_tables, flow_tables')]_vars

\* C12 witness: add_node named a node that has links, so it changed nothing
\* and install_flows ran again; the rebuilt table holds a two-hop action in
\* the order opposite to the node names'.
C12_Witness ==
  /\ cmd.op = "add_node"
  /\ cmd.u \in DOMAIN adj /\ DOMAIN adj[cmd.u] /= {}
  /\ \E se \in TableEntries :
       Len(se[2].action) = 2 /\ NodeRank[se[2].action[1]] > NodeRank[se[2].action[2]]

\* The switch topology with the link S2-S4 removed.
ScenarioAfterRemoval == GraphRemoveLink(ScenarioTopology, "S2", "S4")

\* The last command was query S1 S4.
QueriedS1S4 == cmd.op = "query" /\ cmd.u = "S1" /\ cmd.v = "S4"

\* C13: on the topology S1-S2(1), S1-S3(1), S2-S4(1), S3-S4(1), S1-S4(5),
\* compute_path(S1, S4) returns a path of two edges whose middle node is S2 or
\* S3, never the direct link of weight 5, and
\* compute_equal_cost_next_hops(S1, S4, dist from S1) is the set {S2, S3}.
C13_ScenarioEcmp ==
  adj = ScenarioTopology =>
    /\ ComputeEqualCostNextHops(adj, "S1", "S4", DistFrom("S1")) = {"S2", "S3"}
    /\ QueriedS1S4 =>
         /\ path.kind = "path"
         /\ Len(path.nodes) = 3
         /\ path.nodes[1] = "S1"
         /\ path.nodes[2] \in {"S2", "S3"}
         /\ path.nodes[3] = "S4"

\* The full switch topology, rebuilt after a failure, answers query S1 S4.
C13_Witness ==
  /\ adj = ScenarioTopology
  /\ QueriedS1S4
  /\ path.kind = "path"
  /\ DistFrom("S1")["S4"] = 2

\* C14 as stated: after remove_link_and_reconfigure(S2, S4) on the switch
\* topology, compute_path(S1, S4) returns a path of three edges via S3.
C14_ThreeEdgePathViaS3 ==
  (adj = ScenarioAfterRemoval /\ QueriedS1S4) =>
    /\ path.kind = "path"
    /\ Len(path.nodes) = 4
    /\ "S3" \in Range(path.nodes)

\* C14, amended: after remove_link_and_reconfigure(S2, S4) on the switch
\* topology, compute_path(S1, S4) returns the path S1, S3, S4: three nodes,
\* two edges, via S3.
C14_TwoEdgePathViaS3 ==
  (adj = ScenarioAfterRemoval /\ QueriedS1S4) =>
    /\ path.kind = "path"
    /\ path.nodes = <<"S1", "S3", "S4">>

\* The link S2-S4 was removed and query S1 S4 answered with a path.
C14_Witness ==
  /\ adj = ScenarioAfterRemoval
  /\ "S4" \notin DOMAIN adj["S2"]
  /\ QueriedS1S4
  /\ path.kind = "path"

\* C15: after remove_link_and_reconfigure(S2, S4) on the switch topology, no
\* entry at any switch with match_dst = S4 lists S2 in its action or backup.
C15_NoEntryForS4ViaS2 ==
  adj = ScenarioAfterRemoval =>
    \A se \in TableEntries :
      se[2].match_dst = "S4" =>
        /\ "S2" \notin Range(se[2].action)
        /\ "backup" \in DOMAIN se[2] => "S2" \notin Range(se[2].backup)

\* C16: add_node(n) for an existing n leaves the topology as it was;
\* remove_node(n) for an absent n and remove_link(u, v) for an absent link (u or
\* v possibly not a node) leave the topology as it was and raise nothing;
\* remove_link never removes a node.
C16_StructuralNoOps ==
  [][/\ (cmd'.op = "add_node" /\ cmd'.u \in DOMAIN adj) => adj' = adj
     /\ (cmd'.op = "remove_node" /\ cmd'.u \notin DOMAIN adj) =>
          adj' = adj /\ pc' /= "crashed"
     /\ (/\ cmd'.op = "remove_link"
         /\ cmd'.v \notin DOMAIN GraphNeighbors(adj, cmd'.u)
         /\ cmd'.u \notin DOMAIN GraphNeighbors(adj, cmd'.v)) =>
          adj' = adj /\ pc' /= "crashed"
     /\ cmd'.op = "remove_link" => DOMAIN adj' = DOMAIN adj /\ pc' /= "crashed"
    ]_vars

\* remove_link ran with a u that is no node, on a topology that has a link.
C16_Witness ==
  /\ cmd.op = "remove_link"
  /\ cmd.u \notin DOMAIN adj
  /\ cmd.v \in DOMAIN adj
  /\ Links(adj) /= {}

\* C17: while install_flows runs, flow_tables never holds a half-built table:
\* every step that changes flow_tables puts the complete new table in place,
\* so a reader sees the complete previous table or the complete new one.
C17_AtomicPublication ==
  [][flow_tables' /= flow_tables =>
       flow_tables' \in InstallFlows(adj', active_flows', critical_flows')]_vars

\* C18: install_flows and the query compute_path leave the topology,
\* active_flows and critical_flows as they were, and compute_path leaves
\* flow_tables as it was too.
C18_WritesOnlyFlowTable ==
  [][/\ pc \in {"install", "install_loop"} =>
          /\ adj' = adj
          /\ active_flows' = active_flows
          /\ critical_flows' = critical_flows
     /\ (cmd'.op = "query" /\ pc = "prompt") =>
          /\ adj' = adj
          /\ active_flows' = active_flows
          /\ critical_flows' = critical_flows
          /\ flow_tables' = flow_tables
    ]_vars

\* A query found a path over links, after install_flows built entries for an
\* active flow.
C18_Witness ==
  /\ cmd.op = "query"
  /\ path.kind = "path"
  /\ Len(path.nodes) = 3
  /\ active_flows /= <<>>
  /\ \E se \in TableEntries : se[2].priority = "high"

\* Where the walk cur, prev[cur], prev[prev[cur]], ... stops when it is given
\* fuel steps: the node whose predecessor is None, or None when the fuel ran out.
RECURSIVE WalkEnd(_, _, _)
WalkEnd(prev, cur, fuel) ==
  IF prev[cur] = NoneNode THEN cur
  ELSE IF fuel = 0 THEN NoneNode
  ELSE WalkEnd(prev, prev[cur], fuel - 1)

\* C19: on every topology with non-negative weights (zero weights, self-links
\* and ties included) and for all nodes src, dst, compute_shortest_paths(src)
\* returns and the predecessor map has no cycle: the walk from any node stops
\* within as many steps as there are nodes, from a reachable dst it stops at
\* src, and compute_path(src, dst) returns a path from src of at most that
\* many nodes, or None.
C19_WalksTerminate ==
  /\ \A src \in DOMAIN adj :
       LET sp == ComputeShortestPaths(adj, src)
       IN \A dst \in DOMAIN adj :
            /\ WalkEnd(sp.prev, dst, Cardinality(DOMAIN adj)) /= NoneNode
            /\ sp.dist[dst] /= INF =>
                 WalkEnd(sp.prev, dst, Cardinality(DOMAIN adj)) = src
  /\ (cmd.op = "query" /\ cmd.u \in DOMAIN adj /\ cmd.v \in DOMAIN adj) =>
       /\ path.kind \in {"path", "None"}
       /\ path.kind = "path" =>
            /\ Len(path.nodes) <= Cardinality(DOMAIN adj)
            /\ path.nodes[1] = cmd.u

\* A query answered over a zero-weight link, from a node that has a self-link,
\* with an equal-cost tie between the direct link and the way round.
C19_Witness ==
  /\ cmd.op = "query"
  /\ path.kind = "path"
  /\ Len(path.nodes) >= 2
  /\ cmd.u \in DOMAIN adj[cmd.u]
  /\ \E l \in Links(adj) : l[1] /= l[2] /\ l[3] = 0
  /\ \E n \in DOMAIN adj :
       /\ n \notin {cmd.u, cmd.v}
       /\ n \in DOMAIN adj[cmd.u] /\ cmd.v \in DOMAIN adj[n]
       /\ cmd.v \in DOMAIN adj[cmd.u]
       /\ adj[cmd.u][n] + adj[n][cmd.v] = adj[cmd.u][cmd.v]

====
